---- MODULE Spec2Model ----
(***************************************************************************)
(* Event pipeline of the geolocation tracker: the Redis Streams publisher, *)
(* the consumer (read loop, bounded channel, processing loop, handler      *)
(* dispatch and acknowledgment) and the EventService lifecycle.            *)
(*                                                                         *)
(* Strings that the program only compares with "" are modelled as naturals *)
(* with 0 standing for the empty string.  A Redis stream identifier        *)
(* "<ms>-<seq>" is modelled by its position in the order the server hands  *)
(* identifiers out: 1, 2, 3, ...                                           *)
(***************************************************************************)
EXTENDS Integers, Sequences, FiniteSets, TLC

\* ------------------------------------------------------------------ bounds
\* Caller-side event values in the publisher specification.
NumEvents == 2
\* Publish calls in one behaviour of the publisher specification.
MaxPublishes == 3
\* Records appended to position-events in one behaviour of the consumer specification.
MaxEntries == 2
\* Records appended to position-events in one behaviour of the service specification
\* and of the re-initialisation specification.
SvcMaxEntries == 1
\* Capacity of a subscription's channel (make(chan *Event, 100) in the source,
\* scaled down so that a full channel is reached).
ChanCap == 1
\* XReadGroupArgs.Count (10 in the source, scaled down with the stream length).
ReadCount == 2

\* --------------------------------------------------------------- constants
StreamPositionEvents == "geolocation:position-events"
StreamSectorEvents == "geolocation:sector-events"
StreamProximityEvents == "geolocation:proximity-events"
StreamNames == {StreamPositionEvents, StreamSectorEvents, StreamProximityEvents}

ConsumerGroupNotifications == "notifications"
ConsumerGroupAnalytics == "analytics"
ConsumerGroupRealtime == "realtime"
Groups == {ConsumerGroupNotifications, ConsumerGroupAnalytics, ConsumerGroupRealtime}

EventTypePositionChanged == "position.changed"
EventTypeUserEnteredSector == "sector.user_entered"
EventTypeUserLeftSector == "sector.user_left"
EventTypeUserNearby == "proximity.user_nearby"
EventTypes == {EventTypePositionChanged, EventTypeUserEnteredSector,
               EventTypeUserLeftSector, EventTypeUserNearby}

\* The empty string "" of ID and StreamID.
EmptyString == 0

VARIABLES
  stream,         \* Redis: stream name -> sequence of entries [id, values]
  lastId,         \* Redis: stream name -> last identifier the server generated
  groupExists,    \* Redis: stream name -> group -> BOOLEAN
  lastDelivered,  \* Redis: stream name -> group -> last-delivered identifier
  pending,        \* Redis: stream name -> group -> set of pending identifiers (PEL)
  events,         \* caller-side *Event values, by handle
  uuidCount,      \* how many identifiers uuid.New() has produced
  pubCalls,       \* number of Publish calls made
  pubLog,         \* the last Publish call: [h, stream, emptyID, err]
  handlers,       \* RedisStreamConsumer.handlers: event type -> sequence of handlers
  cancelled,      \* whether the shared context is cancelled
  rpc,            \* group -> where the read-loop goroutine of its subscription is
  batch,          \* group -> messages of the last XReadGroup not yet decoded and sent
  chan,           \* group -> contents of eventChan
  ppc,            \* group -> where the startConsumer goroutine is
  readLog,        \* group -> identifiers XReadGroup returned to its worker, in order
  procLog,        \* group -> outcomes of the processEvent calls, in order
  svc,            \* EventService: "new", "started" or "failed" (Start returned an error)
  wg,             \* EventService.wg counter
  stopPc,         \* Stop(): "idle" (not called), "waiting" (in wg.Wait), "returned"
  initCall,       \* the InitializeStreams call in progress: [pc, idx, dummy]
  initRet,        \* whether each finished InitializeStreams call returned an error
  positions,      \* PositionRepository: identifiers of the saved positions
  ucLog,          \* the last SaveUserPositionUseCase.Execute call and its outcome
  handled         \* the last direct Handle call and its outcome

redisVars == <<stream, lastId, groupExists, lastDelivered, pending>>
pubVars == <<events, pubCalls, pubLog>>
consVars == <<handlers, cancelled, rpc, batch, chan, ppc, readLog, procLog>>
svcVars == <<svc, wg, stopPc>>
initVars == <<initCall, initRet>>
ucVars == <<positions, ucLog>>
restVars == <<initCall, initRet, positions, ucLog, handled>>
vars == <<stream, lastId, groupExists, lastDelivered, pending,
          events, uuidCount, pubCalls, pubLog,
          handlers, cancelled, rpc, batch, chan, ppc, readLog, procLog,
          svc, wg, stopPc, initCall, initRet, positions, ucLog, handled>>

Handles == 1..NumEvents

\* ------------------------------------------------------- event envelope
\* A Data value is a map from keys to Go values [t |-> Go type, v |-> value].
\* encoding/json cannot encode channels, functions or NaN/Inf floats.
Unsupported == {"chan", "nan"}

GoodData == [distance_moved |-> [t |-> "float64", v |-> 150],
             users_in_sector |-> [t |-> "int", v |-> 2]]
BadData == [distance_moved |-> [t |-> "nan", v |-> 0],
            users_in_sector |-> [t |-> "int", v |-> 2]]
DataValues == {GoodData, BadData}

ApiMetadata == [Source |-> "position-api", Version |-> "1.0", RequestID |-> ""]

\* json.Marshal(event.Data): an error when a value has no JSON encoding; otherwise
\* the JSON object, in which a Go int and a Go float64 are both a JSON number.
JSONMarshalData(data) ==
  IF \E k \in DOMAIN data : data[k].t \in Unsupported
  THEN [err |-> TRUE, text |-> <<>>]
  ELSE [err |-> FALSE,
        text |-> [k \in DOMAIN data |->
                    IF data[k].t \in {"int", "float64"}
                    THEN [j |-> "number", v |-> data[k].v]
                    ELSE [j |-> data[k].t, v |-> data[k].v]]]

\* json.Marshal(event.Metadata): a struct of three strings always encodes.
JSONMarshalMetadata(md) ==
  [err |-> FALSE,
   text |-> [source |-> md.Source, version |-> md.Version, request_id |-> md.RequestID]]

\* uuid.New().String(): a fresh non-empty string.
NewUUID(n) == n + 1

\* A time.Time is its wall-clock instant and, when it came from time.Now(), a
\* monotonic reading; Format keeps the instant only, Parse returns no monotonic reading.
FormatRFC3339Nano(ts) == ts.wall

ParseRFC3339Nano(text) == [wall |-> text, mono |-> 0]

\* json.Unmarshal into map[string]interface{}: every JSON number is a float64.
JSONUnmarshalData(text) ==
  [k \in DOMAIN text |->
     IF text[k].j = "number"
     THEN [t |-> "float64", v |-> text[k].v]
     ELSE [t |-> text[k].j, v |-> text[k].v]]

JSONUnmarshalMetadata(text) ==
  [Source |-> text.source, Version |-> text.version, RequestID |-> text.request_id]

\* ------------------------------------------------------------ Redis model
\* XADD streamName * values: the server generates the next identifier and appends.
XAddId(streamName) == lastId[streamName] + 1

XAddEntry(streamName, values) == [id |-> XAddId(streamName), values |-> values]

\* ------------------------------------------------------------- publisher
\* Publish, as a function of the event, the destination and whether XADD succeeds:
\* the error returned, the event as Publish leaves it, and the records appended.
PublishMissingStreamID(ev, streamName, xaddOk) ==
  LET ev1 == IF ev.ID = EmptyString THEN [ev EXCEPT !.ID = NewUUID(uuidCount)] ELSE ev
      eventDataJSON == JSONMarshalData(ev1.Data)
      metadataJSON == JSONMarshalMetadata(ev1.Metadata)
      fields == [event_id |-> ev1.ID, type |-> ev1.Type, user_id |-> ev1.UserID,
                 event_ctx |-> ev1.EventID,
                 timestamp |-> FormatRFC3339Nano(ev1.Timestamp),
                 data |-> eventDataJSON.text, metadata |-> metadataJSON.text]
  IN IF eventDataJSON.err \/ metadataJSON.err \/ ~xaddOk
     THEN [err |-> TRUE, event |-> ev1, appended |-> <<>>]
     ELSE [err |-> FALSE, event |-> ev1,
           appended |-> <<XAddEntry(streamName, fields)>>]

PublishAppendsOnError(ev, streamName, xaddOk) ==
  LET ev1 == IF ev.ID = EmptyString THEN [ev EXCEPT !.ID = NewUUID(uuidCount)] ELSE ev
      eventDataJSON == JSONMarshalData(ev1.Data)
      metadataJSON == JSONMarshalMetadata(ev1.Metadata)
      fields == [event_id |-> ev1.ID, type |-> ev1.Type, user_id |-> ev1.UserID,
                 event_ctx |-> ev1.EventID,
                 timestamp |-> FormatRFC3339Nano(ev1.Timestamp),
                 data |-> eventDataJSON.text, metadata |-> metadataJSON.text]
  IN IF ~xaddOk
     THEN [err |-> TRUE, event |-> ev1, appended |-> <<>>]
     ELSE IF eventDataJSON.err \/ metadataJSON.err
     THEN [err |-> TRUE, event |-> ev1,
           appended |-> <<XAddEntry(streamName, fields)>>]
     ELSE [err |-> FALSE,
           event |-> [ev1 EXCEPT !.StreamID = XAddId(streamName)],
           appended |-> <<XAddEntry(streamName, fields)>>]

PublishCall(ev, streamName, xaddOk) ==
  LET ev1 == IF ev.ID = EmptyString THEN [ev EXCEPT !.ID = NewUUID(uuidCount)] ELSE ev
      eventDataJSON == JSONMarshalData(ev1.Data)
      metadataJSON == JSONMarshalMetadata(ev1.Metadata)
      fields == [event_id |-> ev1.ID, type |-> ev1.Type, user_id |-> ev1.UserID,
                 event_ctx |-> ev1.EventID,
                 timestamp |-> FormatRFC3339Nano(ev1.Timestamp),
                 data |-> eventDataJSON.text, metadata |-> metadataJSON.text]
  IN IF eventDataJSON.err
     THEN [err |-> TRUE, event |-> ev1, appended |-> <<>>]
     ELSE IF metadataJSON.err
     THEN [err |-> TRUE, event |-> ev1, appended |-> <<>>]
     ELSE IF ~xaddOk
     THEN [err |-> TRUE, event |-> ev1, appended |-> <<>>]
     ELSE [err |-> FALSE,
           event |-> [ev1 EXCEPT !.StreamID = XAddId(streamName)],
           appended |-> <<XAddEntry(streamName, fields)>>]

\* The state change of one Publish(ctx, streamName, events[h]) call.
Publish(h, streamName, xaddOk) ==
  LET r == PublishCall(events[h], streamName, xaddOk)
  IN /\ pubCalls < MaxPublishes
     /\ events' = [events EXCEPT ![h] = r.event]
     /\ uuidCount' = IF events[h].ID = EmptyString THEN uuidCount + 1 ELSE uuidCount
     /\ stream' = [stream EXCEPT ![streamName] = @ \o r.appended]
     /\ lastId' = [lastId EXCEPT ![streamName] = @ + Len(r.appended)]
     /\ pubCalls' = pubCalls + 1
     /\ pubLog' = [h |-> h, stream |-> streamName,
                   emptyID |-> (events[h].ID = EmptyString), err |-> r.err]
     /\ UNCHANGED <<groupExists, lastDelivered, pending>>
     /\ UNCHANGED <<consVars, svcVars>>
     /\ UNCHANGED restVars

PublishPositionChanged(h, xaddOk) == Publish(h, StreamPositionEvents, xaddOk)

PublishSectorChanged(h, xaddOk) == Publish(h, StreamSectorEvents, xaddOk)

\* ------------------------------------------------- publisher specification
\* Events as the factory functions build them: Type, UserID, Timestamp and Data set,
\* StreamID empty, ID empty or chosen by the caller.
CallerIDs == {100}

NewEvents ==
  [ID : {EmptyString} \cup CallerIDs, Type : {EventTypePositionChanged},
   StreamID : {EmptyString}, UserID : {"u1"}, EventID : {"ctx"},
   Timestamp : {[wall |-> 7, mono |-> 1]}, Data : DataValues, Metadata : {ApiMetadata}]

InitRedis ==
  /\ stream = [s \in StreamNames |-> <<>>]
  /\ lastId = [s \in StreamNames |-> 0]
  /\ groupExists = [s \in StreamNames |-> [g \in Groups |-> FALSE]]
  /\ lastDelivered = [s \in StreamNames |-> [g \in Groups |-> 0]]
  /\ pending = [s \in StreamNames |-> [g \in Groups |-> {}]]

InitConsumer ==
  /\ handlers = [t \in EventTypes |-> <<>>]
  /\ cancelled = FALSE
  /\ rpc = [g \in Groups |-> "none"]
  /\ batch = [g \in Groups |-> <<>>]
  /\ chan = [g \in Groups |-> <<>>]
  /\ ppc = [g \in Groups |-> "none"]
  /\ readLog = [g \in Groups |-> <<>>]
  /\ procLog = [g \in Groups |-> <<>>]

InitService ==
  /\ svc = "new"
  /\ wg = 0
  /\ stopPc = "idle"

\* No InitializeStreams call, no Execute call and no direct Handle call yet.
NoCall == [pc |-> "idle"]

InitRest ==
  /\ initCall = NoCall
  /\ initRet = <<>>
  /\ positions = {}
  /\ ucLog = NoCall
  /\ handled = NoCall

InitPub ==
  /\ InitRedis
  /\ InitConsumer
  /\ InitService
  /\ events \in [Handles -> NewEvents]
  /\ uuidCount = 0
  /\ pubCalls = 0
  /\ pubLog = [h |-> 0, stream |-> "", emptyID |-> FALSE, err |-> FALSE]
  /\ InitRest

NextPub ==
  \E h \in Handles, xaddOk \in BOOLEAN :
    \/ PublishPositionChanged(h, xaddOk)
    \/ PublishSectorChanged(h, xaddOk)

SpecPub == InitPub /\ [][NextPub]_vars

\* ------------------------------------------------------------ Redis groups
\* XREADGROUP GROUP group consumer COUNT ReadCount STREAMS streamName > : the entries
\* never delivered to the group, oldest first, at most ReadCount of them.
Min(a, b) == IF a < b THEN a ELSE b

NewEntries(streamName, group) ==
  SelectSeq(stream[streamName], LAMBDA e : e.id > lastDelivered[streamName][group])

XReadGroupResult(streamName, group) ==
  SubSeq(NewEntries(streamName, group), 1,
         Min(ReadCount, Len(NewEntries(streamName, group))))

Ids(msgs) == [i \in 1..Len(msgs) |-> msgs[i].id]

Range(f) == {f[i] : i \in DOMAIN f}

\* XACK streamName group id: the entry leaves the pending list of that group.
XAckEveryGroup(pel, streamName, group, id) ==
  [pel EXCEPT ![streamName] = [g \in Groups |-> pel[streamName][g] \ {id}]]

XAck(pel, streamName, group, id) ==
  [pel EXCEPT ![streamName][group] = @ \ {id}]

\* --------------------------------------------------------------- consumer
SubscribedStreamSector == StreamSectorEvents

\* Every subscription the service starts reads position-events.
SubscribedStream == StreamPositionEvents

RequiredFields ==
  {"event_id", "type", "user_id", "event_ctx", "timestamp", "data", "metadata"}

ParseMessageSwapsIds(message) ==
  IF RequiredFields \subseteq DOMAIN message.values
  THEN [err |-> FALSE,
        event |-> [ID |-> message.values.event_id,
                   Type |-> message.values.type,
                   StreamID |-> message.id,
                   UserID |-> message.values.event_ctx,
                   EventID |-> message.values.user_id,
                   Timestamp |-> ParseRFC3339Nano(message.values.timestamp),
                   Data |-> JSONUnmarshalData(message.values.data),
                   Metadata |-> JSONUnmarshalMetadata(message.values.metadata)]]
  ELSE [err |-> TRUE, event |-> <<>>]

\* parseMessage: an error when a field is missing, otherwise the decoded event with
\* StreamID taken from the message's own identifier.
ParseMessage(message) ==
  IF RequiredFields \subseteq DOMAIN message.values
  THEN [err |-> FALSE,
        event |-> [ID |-> message.values.event_id,
                   Type |-> message.values.type,
                   StreamID |-> message.id,
                   UserID |-> message.values.user_id,
                   EventID |-> message.values.event_ctx,
                   Timestamp |-> ParseRFC3339Nano(message.values.timestamp),
                   Data |-> JSONUnmarshalData(message.values.data),
                   Metadata |-> JSONUnmarshalMetadata(message.values.metadata)]]
  ELSE [err |-> TRUE, event |-> <<>>]

\* The shipped handlers, and two other implementations of EventHandler: one whose
\* CanHandle holds and whose Handle may fail, one whose CanHandle never holds.
NotificationHandler == "NotificationHandler"
AnalyticsHandler == "AnalyticsHandler"
RealtimeHandler == "RealtimeHandler"
CustomHandler == "CustomHandler"
DecliningHandler == "DecliningHandler"

CanHandle(h, eventType) ==
  CASE h = NotificationHandler ->
         eventType \in {EventTypePositionChanged, EventTypeUserEnteredSector,
                        EventTypeUserLeftSector}
    [] h = AnalyticsHandler -> eventType = EventTypePositionChanged
    [] h = RealtimeHandler -> eventType = EventTypePositionChanged
    [] h = CustomHandler -> TRUE
    [] h = DecliningHandler -> FALSE

\* Handle: whether it returns an error (the set of possible answers).
HandleErrs(h, event) ==
  CASE h = NotificationHandler ->
         {event.Type \notin {EventTypePositionChanged, EventTypeUserEnteredSector,
                             EventTypeUserLeftSector}}
    [] h = AnalyticsHandler -> {event.Type # EventTypePositionChanged}
    [] h = RealtimeHandler -> {event.Type # EventTypePositionChanged}
    [] h = CustomHandler -> BOOLEAN
    [] h = DecliningHandler -> BOOLEAN

\* RegisterHandler appends to the list of the type.
RegisterHandler(reg, eventType, h) == [reg EXCEPT ![eventType] = Append(@, h)]

\* processEvent up to the acknowledgment: which handlers are invoked, whether one of
\* them failed, and whether Ack is called.  errs[i] is the error of the i-th handler.
ProcessEventAlwaysAcks(hs, eventType, errs) ==
  [invoked |-> SelectSeq(hs, LAMBDA h : CanHandle(h, eventType)),
   failed |-> \E i \in 1..Len(hs) : CanHandle(hs[i], eventType) /\ errs[i],
   ackCalled |-> TRUE]

ProcessEventDropsUnhandled(hs, eventType, errs) ==
  [invoked |-> SelectSeq(hs, LAMBDA h : CanHandle(h, eventType)),
   failed |-> \E i \in 1..Len(hs) : CanHandle(hs[i], eventType) /\ errs[i],
   ackCalled |-> /\ Len(hs) > 0
                 /\ ~\E i \in 1..Len(hs) : CanHandle(hs[i], eventType) /\ errs[i]]

ProcessEventPlan(hs, eventType, errs) ==
  IF Len(hs) = 0
  THEN [invoked |-> <<>>, failed |-> FALSE, ackCalled |-> TRUE]
  ELSE LET success == ~\E i \in 1..Len(hs) : CanHandle(hs[i], eventType) /\ errs[i]
       IN [invoked |-> SelectSeq(hs, LAMBDA h : CanHandle(h, eventType)),
           failed |-> ~success,
           ackCalled |-> success]

\* startConsumer goroutine, Subscribe: XGROUP CREATE ... $ (only its success on a
\* group that does not exist changes anything; every error is logged and ignored),
\* then the read loop is started and the channel returned.
Subscribe(g) ==
  /\ ppc[g] = "subscribe"
  /\ \E ok \in BOOLEAN :
       /\ ok => ~groupExists[SubscribedStream][g] /\ ~cancelled
                  /\ lastId[SubscribedStream] > 0
       /\ groupExists' = [groupExists EXCEPT ![SubscribedStream][g] = @ \/ ok]
       /\ lastDelivered' = [lastDelivered EXCEPT ![SubscribedStream][g] =
                              IF ok THEN lastId[SubscribedStream] ELSE @]
  /\ rpc' = [rpc EXCEPT ![g] = "select"]
  /\ ppc' = [ppc EXCEPT ![g] = "process"]
  /\ UNCHANGED <<stream, lastId, pending, events, uuidCount, pubCalls, pubLog,
                 handlers, cancelled, batch, chan, readLog, procLog, svcVars>>
  /\ UNCHANGED restVars

\* Read loop, top of the for: ctx.Done() is taken when the context is cancelled,
\* otherwise the default branch issues XReadGroup.
ReaderSelect(g) ==
  /\ rpc[g] = "select"
  /\ rpc' = [rpc EXCEPT ![g] = IF cancelled THEN "exited" ELSE "read"]
  /\ UNCHANGED <<redisVars, events, uuidCount, pubCalls, pubLog, handlers, cancelled,
                 batch, chan, ppc, readLog, procLog, svcVars>>
  /\ UNCHANGED restVars

\* Read loop, XReadGroup returns: an error (then the 5 s sleep), redis.Nil when the
\* block time passed with nothing new, or the new entries, which the server marks
\* delivered and pending for the group.  A call issued before the cancellation may
\* still return entries after it.
ReaderRead(g) ==
  /\ rpc[g] = "read"
  /\ \E ok \in BOOLEAN :
       LET msgs == XReadGroupResult(SubscribedStream, g)
       IN IF ~ok \/ ~groupExists[SubscribedStream][g]
          THEN /\ rpc' = [rpc EXCEPT ![g] = "sleep"]
               /\ UNCHANGED <<lastDelivered, pending, batch, readLog>>
          ELSE IF msgs = <<>>
          THEN /\ rpc' = [rpc EXCEPT ![g] = "select"]
               /\ UNCHANGED <<lastDelivered, pending, batch, readLog>>
          ELSE /\ rpc' = [rpc EXCEPT ![g] = "deliver"]
               /\ lastDelivered' = [lastDelivered EXCEPT ![SubscribedStream][g] =
                                      msgs[Len(msgs)].id]
               /\ pending' = [pending EXCEPT ![SubscribedStream][g] =
                                @ \cup Range(Ids(msgs))]
               /\ batch' = [batch EXCEPT ![g] = msgs]
               /\ readLog' = [readLog EXCEPT ![g] = @ \o Ids(msgs)]
  /\ UNCHANGED <<stream, lastId, groupExists, events, uuidCount, pubCalls, pubLog,
                 handlers, cancelled, chan, ppc, procLog, svcVars>>
  /\ UNCHANGED restVars

ReaderWakeExits(g) ==
  /\ rpc[g] = "sleep"
  /\ rpc' = [rpc EXCEPT ![g] = "exited"]
  /\ UNCHANGED <<redisVars, events, uuidCount, pubCalls, pubLog, handlers, cancelled,
                 batch, chan, ppc, readLog, procLog, svcVars>>
  /\ UNCHANGED restVars

\* Read loop, time.Sleep(5 * time.Second) is over.
ReaderWake(g) ==
  /\ rpc[g] = "sleep"
  /\ rpc' = [rpc EXCEPT ![g] = "select"]
  /\ UNCHANGED <<redisVars, events, uuidCount, pubCalls, pubLog, handlers, cancelled,
                 batch, chan, ppc, readLog, procLog, svcVars>>
  /\ UNCHANGED restVars

\* Where the read loop goes after the message at the head of the batch.
AfterMessage(g) == IF Len(batch[g]) = 1 THEN "select" ELSE "deliver"

ReaderDeliverLast(g) ==
  /\ rpc[g] = "deliver"
  /\ LET parsed == ParseMessage(batch[g][Len(batch[g])])
     IN IF parsed.err
        THEN chan' = chan
        ELSE /\ Len(chan[g]) < ChanCap
             /\ chan' = [chan EXCEPT ![g] = Append(@, parsed.event)]
  /\ batch' = [batch EXCEPT ![g] = SubSeq(@, 1, Len(@) - 1)]
  /\ rpc' = [rpc EXCEPT ![g] = AfterMessage(g)]
  /\ UNCHANGED <<redisVars, events, uuidCount, pubCalls, pubLog, handlers, cancelled,
                 ppc, readLog, procLog, svcVars>>
  /\ UNCHANGED restVars

ReaderDeliverStopsOnError(g) ==
  /\ rpc[g] = "deliver"
  /\ LET parsed == ParseMessage(Head(batch[g]))
     IN IF parsed.err
        THEN /\ chan' = chan
             /\ batch' = [batch EXCEPT ![g] = <<>>]
             /\ rpc' = [rpc EXCEPT ![g] = "select"]
        ELSE /\ Len(chan[g]) < ChanCap
             /\ chan' = [chan EXCEPT ![g] = Append(@, parsed.event)]
             /\ batch' = [batch EXCEPT ![g] = Tail(@)]
             /\ rpc' = [rpc EXCEPT ![g] = AfterMessage(g)]
  /\ UNCHANGED <<redisVars, events, uuidCount, pubCalls, pubLog, handlers, cancelled,
                 ppc, readLog, procLog, svcVars>>
  /\ UNCHANGED restVars

ReaderDeliverAcksUndecodable(g) ==
  /\ rpc[g] = "deliver"
  /\ LET parsed == ParseMessage(Head(batch[g]))
     IN IF parsed.err
        THEN /\ chan' = chan
             /\ pending' = XAck(pending, SubscribedStream, g, Head(batch[g]).id)
        ELSE /\ Len(chan[g]) < ChanCap
             /\ chan' = [chan EXCEPT ![g] = Append(@, parsed.event)]
             /\ pending' = pending
  /\ batch' = [batch EXCEPT ![g] = Tail(@)]
  /\ rpc' = [rpc EXCEPT ![g] = AfterMessage(g)]
  /\ UNCHANGED <<stream, lastId, groupExists, lastDelivered, events, uuidCount,
                 pubCalls, pubLog, handlers, cancelled, ppc, readLog, procLog, svcVars>>
  /\ UNCHANGED restVars

ReaderDeliverDropsWhenFull(g) ==
  /\ rpc[g] = "deliver"
  /\ LET parsed == ParseMessage(Head(batch[g]))
     IN IF parsed.err \/ Len(chan[g]) >= ChanCap
        THEN chan' = chan
        ELSE chan' = [chan EXCEPT ![g] = Append(@, parsed.event)]
  /\ batch' = [batch EXCEPT ![g] = Tail(@)]
  /\ rpc' = [rpc EXCEPT ![g] = AfterMessage(g)]
  /\ UNCHANGED <<redisVars, events, uuidCount, pubCalls, pubLog, handlers, cancelled,
                 ppc, readLog, procLog, svcVars>>
  /\ UNCHANGED restVars

\* Read loop, next message of the batch: a message that does not decode is logged
\* and skipped; a decoded event is sent when the channel has room.
ReaderDeliver(g) ==
  /\ rpc[g] = "deliver"
  /\ LET parsed == ParseMessage(Head(batch[g]))
     IN IF parsed.err
        THEN chan' = chan
        ELSE /\ Len(chan[g]) < ChanCap
             /\ chan' = [chan EXCEPT ![g] = Append(@, parsed.event)]
  /\ batch' = [batch EXCEPT ![g] = Tail(@)]
  /\ rpc' = [rpc EXCEPT ![g] = AfterMessage(g)]
  /\ UNCHANGED <<redisVars, events, uuidCount, pubCalls, pubLog, handlers, cancelled,
                 ppc, readLog, procLog, svcVars>>
  /\ UNCHANGED restVars

\* Read loop, the ctx.Done() case of the send: return, and the deferred close runs.
ReaderSendCancelled(g) ==
  /\ rpc[g] = "deliver"
  /\ ~ParseMessage(Head(batch[g])).err
  /\ cancelled
  /\ batch' = [batch EXCEPT ![g] = <<>>]
  /\ rpc' = [rpc EXCEPT ![g] = "exited"]
  /\ UNCHANGED <<redisVars, events, uuidCount, pubCalls, pubLog, handlers, cancelled,
                 chan, ppc, readLog, procLog, svcVars>>
  /\ UNCHANGED restVars

ChanClosedAtCancel(g) == cancelled

\* The channel is closed by the deferred close when the read loop returns.
ChanClosed(g) == rpc[g] = "exited"

ProcReceiveByGroup(g) ==
  /\ ppc[g] = "process"
  /\ chan[g] # <<>>
  /\ LET event == Head(chan[g])
         own == CASE g = ConsumerGroupNotifications -> NotificationHandler
                  [] g = ConsumerGroupAnalytics -> AnalyticsHandler
                  [] g = ConsumerGroupRealtime -> RealtimeHandler
         hs == SelectSeq(handlers[event.Type], LAMBDA h : h = own)
     IN \E errs \in [1..Len(hs) -> BOOLEAN], ackOk \in BOOLEAN :
          LET plan == ProcessEventPlan(hs, event.Type, errs)
          IN /\ \A i \in 1..Len(hs) :
                  errs[i] \in (IF CanHandle(hs[i], event.Type)
                               THEN HandleErrs(hs[i], event) ELSE {FALSE})
             /\ ackOk => plan.ackCalled /\ ~cancelled
             /\ pending' = IF ackOk
                           THEN XAck(pending, SubscribedStream, g, event.StreamID)
                           ELSE pending
             /\ procLog' = [procLog EXCEPT ![g] =
                              Append(@, [sid |-> event.StreamID,
                                         type |-> event.Type,
                                         errs |-> errs,
                                         invoked |-> plan.invoked,
                                         failed |-> plan.failed,
                                         ackCalled |-> plan.ackCalled,
                                         ackErr |-> plan.ackCalled /\ ~ackOk])]
  /\ chan' = [chan EXCEPT ![g] = Tail(@)]
  /\ UNCHANGED <<stream, lastId, groupExists, lastDelivered, events, uuidCount,
                 pubCalls, pubLog, handlers, cancelled, rpc, batch, ppc, readLog,
                 svcVars>>
  /\ UNCHANGED restVars

\* ProcessEvents receives an event and processEvent runs on it: the handlers of its
\* type, then Ack when all invoked handlers succeeded (or none is registered).  Ack
\* fails when Redis fails, and always when the context is already cancelled.
ProcReceive(g) ==
  /\ ppc[g] = "process"
  /\ chan[g] # <<>>
  /\ LET event == Head(chan[g])
         hs == handlers[event.Type]
     IN \E errs \in [1..Len(hs) -> BOOLEAN], ackOk \in BOOLEAN :
          LET plan == ProcessEventPlan(hs, event.Type, errs)
          IN /\ \A i \in 1..Len(hs) :
                  errs[i] \in (IF CanHandle(hs[i], event.Type)
                               THEN HandleErrs(hs[i], event) ELSE {FALSE})
             /\ ackOk => plan.ackCalled /\ ~cancelled
             /\ pending' = IF ackOk
                           THEN XAck(pending, SubscribedStream, g, event.StreamID)
                           ELSE pending
             /\ procLog' = [procLog EXCEPT ![g] =
                              Append(@, [sid |-> event.StreamID,
                                         type |-> event.Type,
                                         errs |-> errs,
                                         invoked |-> plan.invoked,
                                         failed |-> plan.failed,
                                         ackCalled |-> plan.ackCalled,
                                         ackErr |-> plan.ackCalled /\ ~ackOk])]
  /\ chan' = [chan EXCEPT ![g] = Tail(@)]
  /\ UNCHANGED <<stream, lastId, groupExists, lastDelivered, events, uuidCount,
                 pubCalls, pubLog, handlers, cancelled, rpc, batch, ppc, readLog,
                 svcVars>>
  /\ UNCHANGED restVars

\* ProcessEvents takes the ctx.Done() case and returns; startConsumer's deferred
\* wg.Done() runs.
ProcCtxDone(g) ==
  /\ ppc[g] = "process"
  /\ cancelled
  /\ ppc' = [ppc EXCEPT ![g] = "done"]
  /\ wg' = wg - 1
  /\ UNCHANGED <<redisVars, events, uuidCount, pubCalls, pubLog, handlers, cancelled,
                 rpc, batch, chan, readLog, procLog, svc, stopPc>>
  /\ UNCHANGED restVars

\* ProcessEvents finds the channel closed and drained, and returns.
ProcChanClosed(g) ==
  /\ ppc[g] = "process"
  /\ chan[g] = <<>>
  /\ ChanClosed(g)
  /\ ppc' = [ppc EXCEPT ![g] = "done"]
  /\ wg' = wg - 1
  /\ UNCHANGED <<redisVars, events, uuidCount, pubCalls, pubLog, handlers, cancelled,
                 rpc, batch, chan, readLog, procLog, svc, stopPc>>
  /\ UNCHANGED restVars

\* ---------------------------------------------------------- event service
RegisterEventHandlersAnalyticsFirst(reg) ==
  RegisterHandler(
    RegisterHandler(
      RegisterHandler(
        RegisterHandler(
          RegisterHandler(reg, EventTypePositionChanged, AnalyticsHandler),
          EventTypeUserEnteredSector, NotificationHandler),
        EventTypeUserLeftSector, NotificationHandler),
      EventTypePositionChanged, NotificationHandler),
    EventTypePositionChanged, RealtimeHandler)

\* registerEventHandlers, in the order of its RegisterHandler calls.
RegisterEventHandlers(reg) ==
  RegisterHandler(
    RegisterHandler(
      RegisterHandler(
        RegisterHandler(
          RegisterHandler(reg, EventTypePositionChanged, NotificationHandler),
          EventTypeUserEnteredSector, NotificationHandler),
        EventTypeUserLeftSector, NotificationHandler),
      EventTypePositionChanged, AnalyticsHandler),
    EventTypePositionChanged, RealtimeHandler)

\* The order in which InitializeStreams visits the streams.
StreamOrder == <<StreamPositionEvents, StreamSectorEvents, StreamProximityEvents>>

\* The streams ensureStreamExists completed on, when the XAdd of the failAt-th stream
\* fails (failAt = 0: none fails).
InitializedStreams(failAt) ==
  {StreamOrder[i] : i \in {j \in 1..Len(StreamOrder) : failAt = 0 \/ j < failAt}}

StartRegistersFirst(failAt, gcFail) ==
  /\ svc = "new"
  /\ failAt \in (IF cancelled THEN {1} ELSE 0..Len(StreamOrder))
  /\ LET done == InitializedStreams(failAt)
         created(s, g) == /\ s \in done
                          /\ ~groupExists[s][g]
                          /\ ~(s = StreamPositionEvents /\ g \in gcFail)
     IN /\ lastId' = [s \in StreamNames |-> IF s \in done THEN lastId[s] + 1
                                                            ELSE lastId[s]]
        /\ groupExists' = [s \in StreamNames |-> [g \in Groups |->
                             groupExists[s][g] \/ created(s, g)]]
        /\ lastDelivered' = [s \in StreamNames |-> [g \in Groups |->
                               IF created(s, g) THEN lastId[s] + 1
                                                ELSE lastDelivered[s][g]]]
  /\ handlers' = RegisterEventHandlers(handlers)
  /\ IF failAt = 0
     THEN /\ ppc' = [g \in Groups |-> "subscribe"]
          /\ wg' = wg + Cardinality(Groups)
          /\ svc' = "started"
     ELSE /\ svc' = "failed"
          /\ UNCHANGED <<ppc, wg>>
  /\ UNCHANGED <<stream, pending, events, uuidCount, pubCalls, pubLog, cancelled,
                 rpc, batch, chan, readLog, procLog, stopPc>>
  /\ UNCHANGED restVars

\* Start: InitializeStreams (for each stream a dummy record is added and deleted,
\* which advances the stream's last identifier, and the missing groups are created
\* at $), then registerEventHandlers and startConsumers.  gcFail are the groups whose
\* XGroupCreate on position-events fails, which ensureStreamExists only logs.
Start(failAt, gcFail) ==
  /\ svc = "new"
  /\ failAt \in (IF cancelled THEN {1} ELSE 0..Len(StreamOrder))
  /\ LET done == InitializedStreams(failAt)
         created(s, g) == /\ s \in done
                          /\ ~groupExists[s][g]
                          /\ ~(s = StreamPositionEvents /\ g \in gcFail)
     IN /\ lastId' = [s \in StreamNames |-> IF s \in done THEN lastId[s] + 1
                                                            ELSE lastId[s]]
        /\ groupExists' = [s \in StreamNames |-> [g \in Groups |->
                             groupExists[s][g] \/ created(s, g)]]
        /\ lastDelivered' = [s \in StreamNames |-> [g \in Groups |->
                               IF created(s, g) THEN lastId[s] + 1
                                                ELSE lastDelivered[s][g]]]
  /\ IF failAt = 0
     THEN /\ handlers' = RegisterEventHandlers(handlers)
          /\ ppc' = [g \in Groups |-> "subscribe"]
          /\ wg' = wg + Cardinality(Groups)
          /\ svc' = "started"
     ELSE /\ svc' = "failed"
          /\ UNCHANGED <<handlers, ppc, wg>>
  /\ UNCHANGED <<stream, pending, events, uuidCount, pubCalls, pubLog, cancelled,
                 rpc, batch, chan, readLog, procLog, stopPc>>
  /\ UNCHANGED restVars

\* Stop, first half: s.cancel().
StopNeverCancels == cancelled

StopCancel == TRUE

StopCall ==
  /\ stopPc = "idle"
  /\ cancelled' = StopCancel
  /\ stopPc' = "waiting"
  /\ UNCHANGED <<redisVars, events, uuidCount, pubCalls, pubLog, handlers, rpc, batch,
                 chan, ppc, readLog, procLog, svc, wg>>
  /\ UNCHANGED restVars

\* Stop, second half: s.wg.Wait() returns when the counter is zero.
StopReturn ==
  /\ stopPc = "waiting"
  /\ wg = 0
  /\ stopPc' = "returned"
  /\ UNCHANGED <<redisVars, events, uuidCount, pubCalls, pubLog, consVars, svc, wg>>
  /\ UNCHANGED restVars

\* The business layer builds an event and publishes it to position-events; the HTTP
\* routes that do so are set up after EventService.Start() succeeded.
PipelineTypes == {EventTypePositionChanged, EventTypeUserNearby}

FreshEvent(eventType) ==
  [ID |-> EmptyString, Type |-> eventType, StreamID |-> EmptyString,
   UserID |-> "u1", EventID |-> "ctx", Timestamp |-> [wall |-> 7, mono |-> 1],
   Data |-> GoodData, Metadata |-> ApiMetadata]

PublishNew(eventType, limit) ==
  /\ svc = "started"
  /\ Len(stream[StreamPositionEvents]) < limit
  /\ LET r == PublishCall(FreshEvent(eventType), StreamPositionEvents, TRUE)
     IN /\ stream' = [stream EXCEPT ![StreamPositionEvents] = @ \o r.appended]
        /\ lastId' = [lastId EXCEPT ![StreamPositionEvents] = @ + Len(r.appended)]
  /\ uuidCount' = uuidCount + 1
  /\ UNCHANGED <<groupExists, lastDelivered, pending, events, pubCalls, pubLog,
                 consVars, svcVars>>
  /\ UNCHANGED restVars

\* The read-loop goroutine of a subscription.
ReadLoop(g) ==
  \/ ReaderSelect(g)
  \/ ReaderRead(g)
  \/ ReaderWake(g)
  \/ ReaderDeliver(g)
  \/ ReaderSendCancelled(g)

\* The startConsumer goroutine: Subscribe, then ProcessEvents.
ConsumerLoop(g) ==
  \/ Subscribe(g)
  \/ ProcReceive(g)
  \/ ProcCtxDone(g)
  \/ ProcChanClosed(g)

PipelineStep(limit) ==
  \/ \E g \in Groups : ReadLoop(g) \/ ConsumerLoop(g)
  \/ \E t \in PipelineTypes : PublishNew(t, limit)
  \/ StopCall
  \/ StopReturn

GroupCreateFailures == {{}} \cup {{g} : g \in Groups}

Init ==
  /\ InitRedis
  /\ InitConsumer
  /\ InitService
  /\ events = [h \in Handles |-> FreshEvent(EventTypePositionChanged)]
  /\ uuidCount = 0
  /\ pubCalls = 0
  /\ pubLog = [h |-> 0, stream |-> "", emptyID |-> FALSE, err |-> FALSE]
  /\ InitRest

Next ==
  \/ \E failAt \in 0..Len(StreamOrder), gcFail \in GroupCreateFailures :
       Start(failAt, gcFail)
  \/ PipelineStep(SvcMaxEntries)

Spec == Init /\ [][Next]_vars

\* The Go scheduler runs every runnable goroutine, Redis calls and sleeps return,
\* and wg.Wait() returns once the counter is zero.
Fairness ==
  /\ \A g \in Groups : WF_vars(ReadLoop(g)) /\ WF_vars(ConsumerLoop(g))
  /\ WF_vars(StopReturn)

FairSpec == Spec /\ Fairness

\* The service when every XGroupCreate of InitializeStreams succeeded.
NextShutdown ==
  \/ \E failAt \in 0..Len(StreamOrder) : Start(failAt, {})
  \/ PipelineStep(SvcMaxEntries)

SpecShutdown == Init /\ [][NextShutdown]_vars

FairSpecShutdown == SpecShutdown /\ Fairness

\* ----------------------------------------------------- consumer specification
\* One subscription (position-events, notifications, notification-worker-1) driven
\* the way startConsumer drives it, after InitializeStreams, with a registry built by
\* RegisterHandler calls during setup.
NoHandlers == [t \in EventTypes |-> <<>>]

Registries ==
  {RegisterEventHandlers(NoHandlers),
   RegisterHandler(RegisterEventHandlers(NoHandlers),
                   EventTypePositionChanged, CustomHandler),
   RegisterHandler(RegisterHandler(NoHandlers,
                                   EventTypePositionChanged, DecliningHandler),
                   EventTypeUserNearby, CustomHandler)}

ConsumerGroups == {ConsumerGroupNotifications}

InitConsumerSpec ==
  /\ stream = [s \in StreamNames |-> <<>>]
  /\ lastId = [s \in StreamNames |-> 1]
  /\ groupExists = [s \in StreamNames |-> [g \in Groups |-> TRUE]]
  /\ lastDelivered = [s \in StreamNames |-> [g \in Groups |-> 1]]
  /\ pending = [s \in StreamNames |-> [g \in Groups |-> {}]]
  /\ events = [h \in Handles |-> FreshEvent(EventTypePositionChanged)]
  /\ uuidCount = 0
  /\ pubCalls = 0
  /\ pubLog = [h |-> 0, stream |-> "", emptyID |-> FALSE, err |-> FALSE]
  /\ InitRest
  /\ handlers \in Registries
  /\ cancelled = FALSE
  /\ rpc = [g \in Groups |-> "none"]
  /\ batch = [g \in Groups |-> <<>>]
  /\ chan = [g \in Groups |-> <<>>]
  /\ ppc = [g \in Groups |-> IF g \in ConsumerGroups THEN "subscribe" ELSE "none"]
  /\ readLog = [g \in Groups |-> <<>>]
  /\ procLog = [g \in Groups |-> <<>>]
  /\ svc = "started"
  /\ wg = Cardinality(ConsumerGroups)
  /\ stopPc = "idle"

SpecConsumer == InitConsumerSpec /\ [][PipelineStep(MaxEntries)]_vars

FairSpecConsumer == SpecConsumer /\ Fairness

\* ------------------------------------------------------ publisher claims
\* A step that is the Publish call of events[h] to stream s.
PublishStep(h, s) ==
  /\ pubCalls' = pubCalls + 1
  /\ pubLog'.h = h
  /\ pubLog'.stream = s

\* C8: a successful Publish of an event whose ID was empty leaves it with a
\* non-empty ID and a non-empty StreamID equal to the identifier of the one record
\* appended to the named stream; no other stream changes.
C8_PublishAssignsIds ==
  [][\A h \in Handles, s \in StreamNames :
       (PublishStep(h, s) /\ ~pubLog'.err /\ events[h].ID = EmptyString)
       => /\ events'[h].ID # EmptyString
          /\ events'[h].StreamID # EmptyString
          /\ Len(stream'[s]) = Len(stream[s]) + 1
          /\ SubSeq(stream'[s], 1, Len(stream[s])) = stream[s]
          /\ stream'[s][Len(stream'[s])].id = events'[h].StreamID
          /\ stream'[s][Len(stream'[s])].values.event_id = events'[h].ID
          /\ \A o \in StreamNames \ {s} : stream'[o] = stream[o]]_vars

\* C8 witness: the last Publish succeeded on an event that came with an empty ID.
C8_Witness ==
  /\ pubLog.h \in Handles
  /\ pubLog.emptyID
  /\ ~pubLog.err
  /\ events[pubLog.h].StreamID = lastId[pubLog.stream]

\* C9 as stated: a failed Publish appends nothing and leaves StreamID empty.
C9_FailedPublishLeavesStreamIDEmpty ==
  [][\A h \in Handles, s \in StreamNames :
       (PublishStep(h, s) /\ pubLog'.err)
       => /\ stream' = stream
          /\ events'[h].StreamID = EmptyString]_vars

\* C9 amended: a failed Publish returns an error, appends no record to any stream
\* and leaves the event's StreamID as it was (empty when it was empty).
C9_FailedPublishLeavesStreamID ==
  [][\A h \in Handles, s \in StreamNames :
       (PublishStep(h, s) /\ pubLog'.err)
       => /\ stream' = stream
          /\ lastId' = lastId
          /\ events'[h].StreamID = events[h].StreamID
          /\ (JSONMarshalData(events[h].Data).err => pubLog'.err)]_vars

\* C9 witness: the last Publish failed in the append, after an earlier Publish of
\* the same stream had succeeded, and the event has no StreamID.
C9_Witness ==
  /\ pubLog.h \in Handles
  /\ pubLog.err
  /\ events[pubLog.h].Data = GoodData
  /\ events[pubLog.h].StreamID = EmptyString
  /\ Len(stream[pubLog.stream]) > 0

\* C10: StreamID changes only in a successful Publish of that event, and once it is
\* non-empty no step changes it.
C10_StreamIDNeverMutated ==
  [][\A h \in Handles :
       /\ (events'[h].StreamID # events[h].StreamID
             => \E s \in StreamNames : PublishStep(h, s) /\ ~pubLog'.err)
       /\ (events[h].StreamID # EmptyString
             => events'[h].StreamID = events[h].StreamID)]_vars

\* ------------------------------------------------------- consumer claims
\* The pending entries list of group g on the subscribed stream.
PEL(g) == pending[SubscribedStream][g]

\* A step in which processEvent ran for group g, and what it logged.
ProcStep(g) == Len(procLog'[g]) = Len(procLog[g]) + 1

Processed(g) == procLog'[g][Len(procLog'[g])]

\* Every handler that was invoked for the logged call returned no error.
AllInvokedOk(p) ==
  \A i \in 1..Len(handlers[p.type]) :
    CanHandle(handlers[p.type][i], p.type) => ~p.errs[i]

Occurrences(seq, x) == Cardinality({i \in DOMAIN seq : seq[i] = x})

\* C1 as stated: for an event whose type has a registered handler, the entry is
\* acknowledged for the group if and only if every invoked handler returned no
\* error, and it stays pending when a handler failed.
C1_AckIffHandlersSucceeded ==
  [][\A g \in Groups :
       (ProcStep(g) /\ handlers[Processed(g).type] # <<>>)
       => /\ Processed(g).sid \in PEL(g)
          /\ (Processed(g).sid \notin PEL(g)') <=> AllInvokedOk(Processed(g))]_vars

\* C1 amended: the entry is acknowledged if and only if every invoked handler
\* returned no error and the Ack call itself succeeded; Ack is called exactly when
\* every invoked handler succeeded; an entry whose handler failed is still pending
\* for the group in every later state.
C1_AckIffHandlersSucceededAndAckOk ==
  /\ [][\A g \in Groups :
          (ProcStep(g) /\ handlers[Processed(g).type] # <<>>)
          => /\ Processed(g).sid \in PEL(g)
             /\ Processed(g).ackCalled <=> AllInvokedOk(Processed(g))
             /\ (Processed(g).sid \notin PEL(g)')
                  <=> (AllInvokedOk(Processed(g)) /\ ~Processed(g).ackErr)]_vars
  /\ [](\A g \in Groups : \A i \in DOMAIN procLog[g] :
          (handlers[procLog[g][i].type] # <<>> /\ ~AllInvokedOk(procLog[g][i]))
          => procLog[g][i].sid \in PEL(g))

\* C1 witness: one event was left pending because a handler failed and another was
\* acknowledged after all its handlers succeeded.
C1_Witness ==
  \E g \in Groups : \E i, j \in DOMAIN procLog[g] :
    /\ handlers[procLog[g][i].type] # <<>>
    /\ ~AllInvokedOk(procLog[g][i])
    /\ procLog[g][i].sid \in PEL(g)
    /\ handlers[procLog[g][j].type] # <<>>
    /\ AllInvokedOk(procLog[g][j])
    /\ procLog[g][j].sid \notin PEL(g)

\* An entry of group g was left unacknowledged by a failed handler and has been
\* returned to the group's worker only once.
FailedNotRedelivered(g) ==
  \E i \in DOMAIN procLog[g] :
    /\ procLog[g][i].failed
    /\ procLog[g][i].sid \in PEL(g)
    /\ Occurrences(readLog[g], procLog[g][i].sid) < 2

\* C2: while the service keeps running, an entry left unacknowledged by a failed
\* handler is eventually returned to the same group's worker again.
C2_FailedEventRedelivered ==
  \A g \in Groups : FailedNotRedelivered(g) ~> (~FailedNotRedelivered(g) \/ cancelled)

\* C3: when Stop() has returned, every read loop has exited (and so closed its
\* channel) and every processing loop has returned.
C3_StopWaitsForAllGoroutines ==
  stopPc = "returned"
  => \A g \in Groups : ppc[g] \in {"none", "done"} /\ rpc[g] \in {"none", "exited"}

\* C4: a Stop() that was called eventually returns.
C4_StopReturns == (stopPc = "waiting") ~> (stopPc = "returned")

\* C4 witness: Stop() has returned after a successful Start() although a read loop
\* is in its error backoff and a channel is full.
C4_Witness ==
  /\ svc = "started"
  /\ stopPc = "returned"
  /\ \E g \in Groups : rpc[g] = "sleep"
  /\ \E g \in Groups : Len(chan[g]) = ChanCap

\* The identifiers passed to processEvent for group g.
ProcessedIds(g) == {procLog[g][i].sid : i \in DOMAIN procLog[g]}

\* The identifiers group g's goroutines still hold and will pass on: the undecoded
\* rest of the batch while the read loop runs, the channel while ProcessEvents runs.
InFlightIds(g) ==
  (IF rpc[g] = "exited" THEN {} ELSE Range(Ids(batch[g])))
  \cup (IF ppc[g] = "done" THEN {} ELSE {chan[g][i].StreamID : i \in DOMAIN chan[g]})

\* C5: no entry a group's worker has read is lost: it was handed to the handlers,
\* or is on its way to them, or is still to be delivered by a later read.
C5_NoReadEntryLost ==
  \A g \in Groups : \A id \in Range(readLog[g]) :
    \/ id \in ProcessedIds(g)
    \/ id \in InFlightIds(g)
    \/ id > lastDelivered[SubscribedStream][g]

\* The identifiers group g acknowledged itself.
AckedIds(g) ==
  {procLog[g][i].sid : i \in {j \in DOMAIN procLog[g] :
                                 procLog[g][j].ackCalled /\ ~procLog[g][j].ackErr}}

\* C6: each group's deliveries follow its own cursor (the entries it received are
\* the run of stream entries ending at its cursor, in order), and its pending set
\* is what it received minus what it acknowledged itself, whatever other groups do.
C6_GroupsIndependent ==
  \A g \in Groups :
    /\ PEL(g) = Range(readLog[g]) \ AckedIds(g)
    /\ readLog[g] # <<>> =>
         /\ lastDelivered[SubscribedStream][g] = readLog[g][Len(readLog[g])]
         /\ readLog[g] = Ids(SelectSeq(stream[SubscribedStream],
                               LAMBDA e : /\ e.id >= readLog[g][1]
                                          /\ e.id <= lastDelivered[SubscribedStream][g]))

\* C6 witness: an entry was acknowledged by one group and is still pending for
\* another group that received it too.
C6_Witness ==
  \E g, h \in Groups : \E id \in AckedIds(g) : g # h /\ id \in PEL(h)

\* C7 as stated: an event whose type has no registered handler is acknowledged
\* without any handler being invoked.
C7_UnhandledTypeAcked ==
  [][\A g \in Groups :
       (ProcStep(g) /\ handlers[Processed(g).type] = <<>>)
       => /\ Processed(g).invoked = <<>>
          /\ Processed(g).sid \notin PEL(g)']_vars

\* C7 amended: for an event whose type has no registered handler no handler is
\* invoked and Ack is called at once; the entry is acknowledged when that call
\* succeeds and stays pending when it fails.
C7_UnhandledTypeAckCalled ==
  [][\A g \in Groups :
       (ProcStep(g) /\ handlers[Processed(g).type] = <<>>)
       => /\ Processed(g).invoked = <<>>
          /\ Processed(g).ackCalled
          /\ Processed(g).sid \in PEL(g)
          /\ (Processed(g).sid \notin PEL(g)') <=> ~Processed(g).ackErr]_vars

\* C7 witness: an event of a type without handlers was processed and acknowledged.
C7_Witness ==
  \E g \in Groups : \E i \in DOMAIN procLog[g] :
    /\ handlers[procLog[g][i].type] = <<>>
    /\ procLog[g][i].invoked = <<>>
    /\ procLog[g][i].sid \in AckedIds(g)
    /\ procLog[g][i].sid \notin PEL(g)

\* ------------------------------------------------------- round-trip claims
\* The record the Publish step appended.
Appended(s) == stream'[s][Len(stream'[s])]

\* C11 as stated: the record a successful Publish appends decodes, and the decoded
\* event has the same ID, Type, UserID, context id, Timestamp, Data and Metadata as
\* the published event and the record's identifier as StreamID.
C11_RoundTripSame ==
  [][\A h \in Handles, s \in StreamNames :
       (PublishStep(h, s) /\ ~pubLog'.err)
       => LET parsed == ParseMessage(Appended(s))
          IN /\ ~parsed.err
             /\ parsed.event.StreamID = Appended(s).id
             /\ parsed.event.ID = events'[h].ID
             /\ parsed.event.Type = events'[h].Type
             /\ parsed.event.UserID = events'[h].UserID
             /\ parsed.event.EventID = events'[h].EventID
             /\ parsed.event.Timestamp = events'[h].Timestamp
             /\ parsed.event.Data = events'[h].Data
             /\ parsed.event.Metadata = events'[h].Metadata]_vars

\* C11 amended: the record decodes; ID, Type, UserID, context id and Metadata are the
\* same and StreamID is the record's identifier; Timestamp is the same instant,
\* without the monotonic reading; Data has the same keys and values, except that
\* every number comes back as a float64.
C11_RoundTripUpToJSON ==
  [][\A h \in Handles, s \in StreamNames :
       (PublishStep(h, s) /\ ~pubLog'.err)
       => LET parsed == ParseMessage(Appended(s))
              sent == events'[h]
          IN /\ ~parsed.err
             /\ parsed.event.StreamID = Appended(s).id
             /\ parsed.event.StreamID = sent.StreamID
             /\ parsed.event.ID = sent.ID
             /\ parsed.event.Type = sent.Type
             /\ parsed.event.UserID = sent.UserID
             /\ parsed.event.EventID = sent.EventID
             /\ parsed.event.Metadata = sent.Metadata
             /\ parsed.event.Timestamp.wall = sent.Timestamp.wall
             /\ parsed.event.Timestamp.mono = 0
             /\ DOMAIN parsed.event.Data = DOMAIN sent.Data
             /\ \A k \in DOMAIN sent.Data :
                  /\ parsed.event.Data[k].v = sent.Data[k].v
                  /\ parsed.event.Data[k].t =
                       (IF sent.Data[k].t = "int" THEN "float64" ELSE sent.Data[k].t)]_vars

\* C11 witness: the last Publish appended a record whose Data holds a Go int and
\* whose event came from time.Now(), and the record decodes.
C11_Witness ==
  /\ pubLog.h \in Handles
  /\ ~pubLog.err
  /\ Len(stream[pubLog.stream]) > 0
  /\ events[pubLog.h].Data.users_in_sector.t = "int"
  /\ events[pubLog.h].Timestamp.mono # 0
  /\ LET rec == stream[pubLog.stream][Len(stream[pubLog.stream])]
     IN /\ rec.id = events[pubLog.h].StreamID
        /\ ~ParseMessage(rec).err

\* ------------------------------------------------- InitializeStreams, by steps
\* InitializeStreams calls in one behaviour of the stream-initialisation
\* specification, and repeated calls in one behaviour of the re-initialisation one.
MaxInitCalls == 2

MaxReinitCalls == 1

\* The record ensureStreamExists adds to make the stream exist.
DummyValues == [init |-> "true", timestamp |-> 7]

IsDummy(message) == "init" \in DOMAIN message.values

\* The stream ensureStreamExists is working on.
InitStream == StreamOrder[initCall.idx]

\* InitializeStreams is called.
InitBegin(limit) ==
  /\ initCall.pc = "idle"
  /\ Len(initRet) < limit
  /\ initCall' = [pc |-> "xadd", idx |-> 1, dummy |-> 0]
  /\ UNCHANGED <<redisVars, pubVars, uuidCount, consVars, svcVars, initRet, ucVars,
                 handled>>

\* ensureStreamExists: XAdd of the dummy record; its failure ends InitializeStreams
\* with an error.
InitXAdd(ok) ==
  /\ initCall.pc = "xadd"
  /\ IF ok
     THEN /\ stream' = [stream EXCEPT ![InitStream] =
                          Append(@, XAddEntry(InitStream, DummyValues))]
          /\ lastId' = [lastId EXCEPT ![InitStream] = XAddId(InitStream)]
          /\ initCall' = [initCall EXCEPT !.pc = "xdel", !.dummy = XAddId(InitStream)]
          /\ initRet' = initRet
     ELSE /\ initCall' = NoCall
          /\ initRet' = Append(initRet, TRUE)
          /\ UNCHANGED <<stream, lastId>>
  /\ UNCHANGED <<groupExists, lastDelivered, pending, pubVars, uuidCount, consVars,
                 svcVars, ucVars, handled>>

\* ensureStreamExists: XDel of the dummy record; the result is not looked at.
InitXDel(ok) ==
  /\ initCall.pc = "xdel"
  /\ stream' = [stream EXCEPT ![InitStream] =
                  IF ok THEN SelectSeq(@, LAMBDA e : e.id # initCall.dummy) ELSE @]
  /\ initCall' = [initCall EXCEPT !.pc = "groups"]
  /\ UNCHANGED <<lastId, groupExists, lastDelivered, pending, pubVars, uuidCount,
                 consVars, svcVars, initRet, ucVars, handled>>

\* ensureStreamExists: XGroupCreate ... $ for the three groups; fail are the groups
\* whose creation fails with an error other than BUSYGROUP, which is only logged.
\* Then the next stream, or InitializeStreams returns nil.
InitGroups(fail) ==
  /\ initCall.pc = "groups"
  /\ LET created(g) == ~groupExists[InitStream][g] /\ g \notin fail
     IN /\ groupExists' = [groupExists EXCEPT ![InitStream] =
                             [g \in Groups |-> @[g] \/ created(g)]]
        /\ lastDelivered' = [lastDelivered EXCEPT ![InitStream] =
                               [g \in Groups |-> IF created(g) THEN lastId[InitStream]
                                                               ELSE @[g]]]
  /\ IF initCall.idx < Len(StreamOrder)
     THEN /\ initCall' = [pc |-> "xadd", idx |-> initCall.idx + 1, dummy |-> 0]
          /\ initRet' = initRet
     ELSE /\ initCall' = NoCall
          /\ initRet' = Append(initRet, FALSE)
  /\ UNCHANGED <<stream, lastId, pending, pubVars, uuidCount, consVars, svcVars,
                 ucVars, handled>>

\* A step of an InitializeStreams call.
InitStep ==
  \/ \E ok \in BOOLEAN : InitXAdd(ok) \/ InitXDel(ok)
  \/ \E fail \in GroupCreateFailures : InitGroups(fail)

\* Stream initialisation on a fresh Redis, called up to MaxInitCalls times.
InitFresh ==
  /\ InitRedis
  /\ InitConsumer
  /\ InitService
  /\ InitRest
  /\ events = [h \in Handles |-> FreshEvent(EventTypePositionChanged)]
  /\ uuidCount = 0
  /\ pubCalls = 0
  /\ pubLog = [h |-> 0, stream |-> "", emptyID |-> FALSE, err |-> FALSE]

NextInit == InitBegin(MaxInitCalls) \/ InitStep

SpecInit == InitFresh /\ [][NextInit]_vars

\* InitializeStreams called again while a subscription is running and events are
\* being published.
NextReinit ==
  \/ PipelineStep(SvcMaxEntries)
  \/ InitBegin(MaxReinitCalls)
  \/ InitStep

SpecReinit == InitConsumerSpec /\ [][NextReinit]_vars

\* ------------------------------------------------ stream initialisation claims
\* The records of a stream that are events (not the dummy of ensureStreamExists).
EventEntries(s) == SelectSeq(stream[s], LAMBDA e : ~IsDummy(e))

\* A step of an InitializeStreams call.
InitCallStep == initCall' # initCall

\* No read of a subscription has returned a record written by ensureStreamExists.
NoDummyDelivered ==
  \A g \in Groups : \A i \in DOMAIN batch[g] : ~IsDummy(batch[g][i])

\* Every step of a repeated call leaves event entries and groups as they are, and
\* a call in which no XAdd fails returns nil.
ReinitStepsChangeNothing ==
  [][InitCallStep
     => /\ \A s \in StreamNames : EventEntries(s)' = EventEntries(s)
        /\ groupExists' = groupExists
        /\ lastDelivered' = lastDelivered
        /\ pending' = pending
        /\ (initCall.pc = "groups" /\ initRet' # initRet
              => ~initRet'[Len(initRet')])]_vars

\* C12: a repeated InitializeStreams call (Redis answering) returns success, leaves
\* every stream's event entries and every group's existence, cursor and pending set
\* unchanged, and no record it writes is delivered to a subscribed consumer.
C12_ReinitIsSafe == ReinitStepsChangeNothing /\ []NoDummyDelivered

\* InitializeStreams has just returned nil.
InitReturnedNil ==
  /\ initCall.pc = "idle"
  /\ initRet # <<>>
  /\ ~initRet[Len(initRet)]

\* C13: whenever InitializeStreams has returned success, every well-known stream
\* exists and every well-known consumer group exists on it.
C13_SuccessMeansGroupsExist ==
  InitReturnedNil
  => \A s \in StreamNames : lastId[s] > 0 /\ \A g \in Groups : groupExists[s][g]

\* ------------------------------------------------------ SaveUserPosition
\* Execute calls in one behaviour of the use-case specification.
MaxExecutes == 2

\* Request values: an empty and a well-formed user id, latitudes and longitudes
\* inside and outside the valid ranges.
RequestUserIDs == {"", "user123"}

Latitudes == {0 - 91, 0 - 23, 91}

Longitudes == {0 - 181, 0 - 46, 181}

Requests == [UserID : RequestUserIDs, Latitude : Latitudes, Longitude : Longitudes]

\* entity.NewUserID: an error for an empty id.
NewUserIDErr(id) == id = ""

\* valueobject.NewCoordinate: latitude in [-90, 90] and longitude in [-180, 180].
NewCoordinateErr(lat, lng) ==
  ~(lat >= 0 - 90 /\ lat <= 90 /\ lng >= 0 - 180 /\ lng <= 180)

\* uuid.New().String() for the position; a value distinct from the one Publish
\* draws for the event in the same call.
NewPositionID == [position |-> NewUUID(uuidCount + 1)]

\* publishPositionChangedEvent builds the event: distance_moved is 0 without a
\* previous position.
PositionChangedEvent(req, positionID, hasPrevious) ==
  [ID |-> EmptyString, Type |-> EventTypePositionChanged, StreamID |-> EmptyString,
   UserID |-> req.UserID, EventID |-> "default-event",
   Timestamp |-> [wall |-> 7, mono |-> 1],
   Data |-> [position_id |-> [t |-> "string", v |-> positionID],
             new_lat |-> [t |-> "float64", v |-> req.Latitude],
             new_lng |-> [t |-> "float64", v |-> req.Longitude],
             distance_moved |-> [t |-> "float64",
                                 v |-> IF hasPrevious THEN 150 ELSE 0]],
   Metadata |-> ApiMetadata]

\* No position saved, nothing published, no response.
ExecuteFailed(stage) ==
  [err |-> stage, resp |-> <<>>, saved |-> {}, publishCalled |-> FALSE,
   publishErr |-> FALSE, appended |-> <<>>]

ExecutePublishIsFatal(req, found, positionOk, hasPrevious, saveOk, xaddOk) ==
  LET positionID == NewPositionID
      pub == PublishCall(PositionChangedEvent(req, positionID, hasPrevious),
                         StreamPositionEvents, xaddOk)
  IN IF NewUserIDErr(req.UserID) THEN ExecuteFailed("invalid user ID")
     ELSE IF ~found THEN ExecuteFailed("user not found")
     ELSE IF NewCoordinateErr(req.Latitude, req.Longitude)
     THEN ExecuteFailed("invalid coordinates")
     ELSE IF ~positionOk THEN ExecuteFailed("failed to create position")
     ELSE IF ~saveOk THEN ExecuteFailed("failed to save position")
     ELSE IF pub.err
     THEN [err |-> "failed to publish", resp |-> <<>>, saved |-> {},
           publishCalled |-> TRUE, publishErr |-> TRUE, appended |-> <<>>]
     ELSE [err |-> "", resp |-> <<positionID>>, saved |-> {positionID},
           publishCalled |-> TRUE, publishErr |-> FALSE, appended |-> pub.appended]

ExecutePublishesFirst(req, found, positionOk, hasPrevious, saveOk, xaddOk) ==
  LET positionID == NewPositionID
      pub == PublishCall(PositionChangedEvent(req, positionID, hasPrevious),
                         StreamPositionEvents, xaddOk)
  IN IF NewUserIDErr(req.UserID) THEN ExecuteFailed("invalid user ID")
     ELSE IF ~found THEN ExecuteFailed("user not found")
     ELSE IF NewCoordinateErr(req.Latitude, req.Longitude)
     THEN ExecuteFailed("invalid coordinates")
     ELSE IF ~positionOk THEN ExecuteFailed("failed to create position")
     ELSE IF ~saveOk
     THEN [err |-> "failed to save position", resp |-> <<>>, saved |-> {},
           publishCalled |-> TRUE, publishErr |-> pub.err, appended |-> pub.appended]
     ELSE [err |-> "", resp |-> <<positionID>>, saved |-> {positionID},
           publishCalled |-> TRUE, publishErr |-> pub.err, appended |-> pub.appended]

\* Execute, as a function of the request and of what its collaborators answer:
\* the error returned ("" for nil), the response (<<>> for nil), the positions
\* saved, whether PublishPositionChanged was called and failed, and the records
\* it appended.
ExecuteCall(req, found, positionOk, hasPrevious, saveOk, xaddOk) ==
  LET positionID == NewPositionID
      pub == PublishCall(PositionChangedEvent(req, positionID, hasPrevious),
                         StreamPositionEvents, xaddOk)
  IN IF NewUserIDErr(req.UserID) THEN ExecuteFailed("invalid user ID")
     ELSE IF ~found THEN ExecuteFailed("user not found")
     ELSE IF NewCoordinateErr(req.Latitude, req.Longitude)
     THEN ExecuteFailed("invalid coordinates")
     ELSE IF ~positionOk THEN ExecuteFailed("failed to create position")
     ELSE IF ~saveOk THEN ExecuteFailed("failed to save position")
     ELSE [err |-> "", resp |-> <<positionID>>, saved |-> {positionID},
           publishCalled |-> TRUE, publishErr |-> pub.err, appended |-> pub.appended]

\* One Execute(ctx, req) call.  The previous position is the one FindCurrentByUserID
\* returns, if any position was saved.
Execute(req, found, positionOk, saveOk, xaddOk) ==
  /\ (IF ucLog.pc = "idle" THEN 0 ELSE ucLog.n) < MaxExecutes
  /\ LET r == ExecuteCall(req, found, positionOk, positions # {}, saveOk, xaddOk)
     IN /\ positions' = positions \cup r.saved
        /\ stream' = [stream EXCEPT ![StreamPositionEvents] = @ \o r.appended]
        /\ lastId' = [lastId EXCEPT ![StreamPositionEvents] = @ + Len(r.appended)]
        /\ uuidCount' = uuidCount
                          + (IF r.err \in {"invalid user ID", "user not found",
                                           "invalid coordinates"} THEN 0 ELSE 1)
                          + (IF r.publishCalled THEN 1 ELSE 0)
        /\ ucLog' = [pc |-> "done",
                     n |-> IF ucLog.pc = "idle" THEN 1 ELSE ucLog.n + 1,
                     req |-> req, found |-> found, positionOk |-> positionOk,
                     saveOk |-> saveOk, xaddOk |-> xaddOk, err |-> r.err,
                     resp |-> r.resp,
                     saved |-> r.saved, publishCalled |-> r.publishCalled,
                     publishErr |-> r.publishErr]
  /\ UNCHANGED <<groupExists, lastDelivered, pending, pubVars, consVars, svcVars,
                 initVars, handled>>

NextUseCase ==
  \E req \in Requests, found, positionOk, saveOk, xaddOk \in BOOLEAN :
    Execute(req, found, positionOk, saveOk, xaddOk)

SpecUseCase == InitFresh /\ [][NextUseCase]_vars

\* --------------------------------------------------------- use-case claims
\* A step that is an Execute call.
ExecuteStep == ucLog' # ucLog

\* The logged call passed every validation and its repository Save succeeded.
SaveSucceeded(l) ==
  /\ ~NewUserIDErr(l.req.UserID)
  /\ l.found
  /\ ~NewCoordinateErr(l.req.Latitude, l.req.Longitude)
  /\ l.positionOk
  /\ l.saveOk

\* C14: when the position write succeeded and the publish returns an error, Execute
\* returns a response and no error, and the saved position stays saved.
C14_PublishFailureNotFatal ==
  [][(ExecuteStep /\ SaveSucceeded(ucLog') /\ ~ucLog'.xaddOk)
     => /\ ucLog'.publishCalled
        /\ ucLog'.publishErr
        /\ ucLog'.err = ""
        /\ ucLog'.resp # <<>>
        /\ ucLog'.saved # {}
        /\ ucLog'.saved \subseteq positions'
        /\ positions \subseteq positions'
        /\ stream' = stream]_vars

\* C14 witness: a call saved its position, its publish failed, and it returned a
\* response and no error.
C14_Witness ==
  /\ ucLog.pc = "done"
  /\ SaveSucceeded(ucLog)
  /\ ucLog.publishErr
  /\ ucLog.err = ""
  /\ ucLog.resp # <<>>
  /\ ucLog.saved \subseteq positions

\* C15: an Execute call that does not get past the repository Save (invalid user
\* id, user not found, invalid coordinates, position not created, Save failed)
\* returns an error and no response, saves nothing and publishes nothing; a record
\* is appended only by a call whose Save succeeded.
C15_PublishOnlyAfterSave ==
  [][ExecuteStep
     => /\ ~SaveSucceeded(ucLog')
             => /\ ucLog'.err # ""
                /\ ucLog'.resp = <<>>
                /\ ~ucLog'.publishCalled
                /\ stream' = stream
                /\ positions' = positions
        /\ stream' # stream
             => /\ SaveSucceeded(ucLog')
                /\ ucLog'.saved # {}
                /\ ucLog'.saved \subseteq positions'
        /\ SaveSucceeded(ucLog') => ucLog'.publishCalled]_vars

\* C15 witness: a call failed in the repository Save and published nothing, after
\* an earlier call had saved and published.
C15_Witness ==
  /\ ucLog.pc = "done"
  /\ ucLog.err = "failed to save position"
  /\ ~ucLog.publishCalled
  /\ positions # {}
  /\ Len(stream[StreamPositionEvents]) = 1

\* ------------------------------------------------------- shipped handlers
ShippedHandlers == {NotificationHandler, AnalyticsHandler, RealtimeHandler}

\* v, _ := event.Data[key].(float64): the value when the key holds a float64, and 0
\* when the key is missing or holds anything else.
Float64Of(data, key) ==
  IF key \in DOMAIN data /\ data[key].t = "float64" THEN data[key].v ELSE 0

\* What the handlers log beyond the per-event line.
PushNotification == "Sending push notification"
NotifyOthers == "Notifying other users in sector"

HandleCallPushAtHundred(h, event) ==
  IF ~CanHandle(h, event.Type)
  THEN [err |-> TRUE, actions |-> {}]
  ELSE [err |-> FALSE,
        actions |-> IF h = NotificationHandler /\ event.Type = EventTypePositionChanged
                       /\ Float64Of(event.Data, "distance_moved") >= 100
                    THEN {PushNotification} ELSE {}]

HandleCallRejectsMissing(h, event) ==
  IF ~CanHandle(h, event.Type)
     \/ (event.Type = EventTypePositionChanged
         /\ ~("distance_moved" \in DOMAIN event.Data
              /\ event.Data["distance_moved"].t = "float64"))
  THEN [err |-> TRUE, actions |-> {}]
  ELSE [err |-> FALSE,
        actions |-> IF h = NotificationHandler /\ event.Type = EventTypePositionChanged
                       /\ Float64Of(event.Data, "distance_moved") > 100
                    THEN {PushNotification} ELSE {}]

\* Handle of a shipped handler: the error returned and the actions logged.
HandleCall(h, event) ==
  CASE h = NotificationHandler ->
         (CASE event.Type = EventTypePositionChanged ->
                 [err |-> FALSE,
                  actions |-> IF Float64Of(event.Data, "distance_moved") > 100
                              THEN {PushNotification} ELSE {}]
            [] event.Type = EventTypeUserEnteredSector ->
                 [err |-> FALSE,
                  actions |-> IF Float64Of(event.Data, "users_in_sector") > 1
                              THEN {NotifyOthers} ELSE {}]
            [] event.Type = EventTypeUserLeftSector -> [err |-> FALSE, actions |-> {}]
            [] OTHER -> [err |-> TRUE, actions |-> {}])
    [] h = AnalyticsHandler ->
         (IF event.Type = EventTypePositionChanged
          THEN [err |-> FALSE, actions |-> {}]
          ELSE [err |-> TRUE, actions |-> {}])
    [] h = RealtimeHandler ->
         (IF event.Type = EventTypePositionChanged
          THEN [err |-> FALSE, actions |-> {}]
          ELSE [err |-> TRUE, actions |-> {}])

\* Data maps handed to the handlers: distance_moved and users_in_sector missing,
\* float64 (as decoded from the log), int (as built in process), or a string.
DistanceValues ==
  {[t |-> "float64", v |-> 50], [t |-> "float64", v |-> 100],
   [t |-> "float64", v |-> 150], [t |-> "int", v |-> 150], [t |-> "string", v |-> 150]}

UsersValues == {[t |-> "float64", v |-> 2], [t |-> "int", v |-> 2]}

HandlerData ==
  {<<>>}
  \cup {[distance_moved |-> d] : d \in DistanceValues}
  \cup {[users_in_sector |-> u] : u \in UsersValues}
  \cup {[distance_moved |-> d, users_in_sector |-> u] :
          d \in DistanceValues, u \in UsersValues}

HandlerEvent(eventType, data) ==
  [ID |-> 100, Type |-> eventType, StreamID |-> 1, UserID |-> "u1",
   EventID |-> "ctx", Timestamp |-> [wall |-> 7, mono |-> 0], Data |-> data,
   Metadata |-> ApiMetadata]

\* h.Handle(ctx, event) called directly.
Handle(h, eventType, data) ==
  /\ LET r == HandleCall(h, HandlerEvent(eventType, data))
     IN handled' = [pc |-> "done", h |-> h, type |-> eventType, data |-> data,
                    err |-> r.err, actions |-> r.actions]
  /\ UNCHANGED <<redisVars, pubVars, uuidCount, consVars, svcVars, initVars, ucVars>>

NextHandlers ==
  \E h \in ShippedHandlers, eventType \in EventTypes, data \in HandlerData :
    Handle(h, eventType, data)

SpecHandlers == InitFresh /\ [][NextHandlers]_vars

\* --------------------------------------------------------- handler claims
\* C16: for a PositionChanged event the Notification handler logs the push
\* notification exactly when distance_moved is a number (a float64, which every
\* number decoded from the log is) greater than 100, and it never returns an error.
C16_PushIffMovedOver100 ==
  (handled.pc = "done" /\ handled.h = NotificationHandler
     /\ handled.type = EventTypePositionChanged)
  => /\ ~handled.err
     /\ PushNotification \in handled.actions
          <=> /\ "distance_moved" \in DOMAIN handled.data
              /\ handled.data["distance_moved"].t = "float64"
              /\ handled.data["distance_moved"].v > 100

\* C16 witness: the Notification handler logged a push for distance_moved = 150.
C16_Witness ==
  /\ handled.pc = "done"
  /\ handled.h = NotificationHandler
  /\ handled.type = EventTypePositionChanged
  /\ "distance_moved" \in DOMAIN handled.data
  /\ handled.data["distance_moved"] = [t |-> "float64", v |-> 150]
  /\ PushNotification \in handled.actions
  /\ ~handled.err

\* C17: a shipped handler returns an error only for a type its CanHandle rejects,
\* whatever the Data map holds; every registration made by registerEventHandlers
\* pairs a handler with a type it can handle; so the errors processEvent can get
\* from the registered handlers are none.
C17_ShippedHandlersNeverFail ==
  /\ handled.pc = "done"
       => /\ handled.err => ~CanHandle(handled.h, handled.type)
          /\ CanHandle(handled.h, handled.type)
               => HandleErrs(handled.h, HandlerEvent(handled.type, handled.data))
                    = {handled.err}
  /\ \A t \in EventTypes :
       \A i \in 1..Len(RegisterEventHandlers(NoHandlers)[t]) :
         CanHandle(RegisterEventHandlers(NoHandlers)[t][i], t)

\* C17 witness: a handler was given a type it handles with distance_moved missing
\* or wrongly typed, and returned no error.
C17_Witness ==
  /\ handled.pc = "done"
  /\ CanHandle(handled.h, handled.type)
  /\ handled.type = EventTypePositionChanged
  /\ ("distance_moved" \notin DOMAIN handled.data
        \/ handled.data["distance_moved"].t # "float64")
  /\ ~handled.err

\* ---------------------------------------------------------- service claims
\* The groups whose startConsumer goroutine was started.
Subscriptions == {g \in Groups : ppc[g] # "none"}

\* C18: after a successful Start() the registry holds [Notification, Analytics,
\* Realtime] for PositionChanged, [Notification] for UserEnteredSector and for
\* UserLeftSector and nothing for UserNearby, and exactly three subscriptions were
\* started, one per consumer group, all reading position-events; before, and
\* after a failed Start(), none was.
C18_RegistryAndSubscriptions ==
  /\ svc = "started"
       => /\ handlers[EventTypePositionChanged]
               = <<NotificationHandler, AnalyticsHandler, RealtimeHandler>>
          /\ handlers[EventTypeUserEnteredSector] = <<NotificationHandler>>
          /\ handlers[EventTypeUserLeftSector] = <<NotificationHandler>>
          /\ handlers[EventTypeUserNearby] = <<>>
          /\ Subscriptions = Groups
          /\ Cardinality(Subscriptions) = 3
          /\ wg = Cardinality({g \in Groups : ppc[g] \in {"subscribe", "process"}})
  /\ svc # "started" => Subscriptions = {} /\ wg = 0
  /\ SubscribedStream = StreamPositionEvents
  /\ \A s \in StreamNames \ {StreamPositionEvents} : \A g \in Groups :
       pending[s][g] = {}

\* C18 witness: a started service handed a PositionChanged event to the three
\* handlers in registration order.
C18_Witness ==
  /\ svc = "started"
  /\ \E g \in Groups : \E i \in DOMAIN procLog[g] :
       /\ procLog[g][i].type = EventTypePositionChanged
       /\ procLog[g][i].invoked
            = <<NotificationHandler, AnalyticsHandler, RealtimeHandler>>

\* --------------------------------------------------------- ordering claims
\* Where identifier id stands in the read results of group g.
ReadIndex(g, id) == CHOOSE i \in DOMAIN readLog[g] : readLog[g][i] = id

ReaderWaiting(g) ==
  \/ rpc[g] \in {"read", "sleep"}
  \/ /\ rpc[g] = "deliver"
     /\ ~ParseMessage(Head(batch[g])).err
     /\ Len(chan[g]) = ChanCap

\* The processing loop of group g is blocked on its empty, open channel.
ProcWaiting(g) == ppc[g] = "process" /\ chan[g] = <<>> /\ ~ChanClosed(g)

\* C20: once the context is cancelled, a blocked read loop can leave its wait by
\* returning on the cancellation (its next step can be the exit, without the read
\* returning or the sleep ending first), and so can a blocked processing loop.
C20_WaitsRaceCancellation ==
  \A g \in Groups :
    /\ (cancelled /\ ReaderWaiting(g)) => ENABLED (ReadLoop(g) /\ rpc'[g] = "exited")
    /\ (cancelled /\ ProcWaiting(g)) => ENABLED (ConsumerLoop(g) /\ ppc'[g] = "done")

\* ------------------------------------------------------- channel claims
\* C21: a subscription's channel is closed once, in the step in which its own read
\* loop exits on the cancelled context (a closed channel stays closed), and no
\* event is added to a closed channel.
C21_ClosedOnceNoSendAfter ==
  [][\A g \in Groups :
       /\ ChanClosed(g) => /\ ChanClosed(g)'
                           /\ Len(chan'[g]) <= Len(chan[g])
       /\ (~ChanClosed(g) /\ ChanClosed(g)')
            => /\ cancelled
               /\ rpc[g] \in {"select", "deliver"}
               /\ rpc'[g] = "exited"
               /\ chan'[g] = chan[g]]_vars

\* C21 witness: a read loop exited and closed its channel while an event it had
\* sent was still buffered and another entry of its batch was never sent.
C21_Witness ==
  \E g \in Groups :
    /\ ChanClosed(g)
    /\ chan[g] # <<>>
    /\ Len(readLog[g]) = 2
    /\ procLog[g] = <<>>


\* ------------------------------------------------------- read-error claims
\* The read of group g's loop can return what the log holds for the group.
ReadCanSucceed(g) ==
  ENABLED (ReaderRead(g) /\ batch'[g] = XReadGroupResult(SubscribedStream, g))

\* C22: a failed read changes nothing but the loop's position (the group's cursor
\* and pending set, the batch and the channel stay as they are) and puts the loop
\* into the backoff; the backoff ends at the top of the loop; the loop exits only
\* when the context is cancelled; after a failed read the loop reads again unless
\* the context is cancelled; and a read issued while the group exists can return
\* the entries published since the last successful read.
C22_ReadErrorsAreRetried ==
  /\ [][\A g \in Groups :
          /\ (rpc[g] = "read" /\ rpc'[g] = "sleep")
               => /\ lastDelivered' = lastDelivered
                  /\ pending' = pending
                  /\ batch'[g] = batch[g]
                  /\ chan'[g] = chan[g]
                  /\ readLog'[g] = readLog[g]
          /\ (rpc[g] = "read" /\ rpc'[g] # "read")
               => rpc'[g] \in {"sleep", "select", "deliver"}
          /\ (rpc[g] = "sleep" /\ rpc'[g] # "sleep") => rpc'[g] = "select"
          /\ (rpc[g] # "exited" /\ rpc'[g] = "exited") => cancelled]_vars
  /\ [](\A g \in Groups :
          (rpc[g] = "read" /\ groupExists[SubscribedStream][g]) => ReadCanSucceed(g))
  /\ \A g \in Groups : (rpc[g] = "sleep") ~> (rpc[g] = "read" \/ cancelled)

\* C22 witness: a read failed after an earlier entry had been read and handled, the
\* loop is in its backoff, the context is not cancelled, and an entry published
\* since waits in the log for the group.
C22_Witness ==
  \E g \in Groups :
    /\ rpc[g] = "sleep"
    /\ ~cancelled
    /\ Len(procLog[g]) = 1
    /\ NewEntries(SubscribedStream, g) # <<>>


\* ------------------------------------------------------- decode-failure claims
\* A running subscription on a log in which ensureStreamExists writes again (another
\* InitializeStreams call against the same Redis): its dummy record has none of the
\* event fields and does not decode.
NextDecode ==
  \/ PipelineStep(MaxEntries)
  \/ InitBegin(MaxReinitCalls)
  \/ InitStep

SpecDecode == InitConsumerSpec /\ [][NextDecode]_vars

\* The identifiers group g's worker read whose record is a well-formed event (event
\* records are never deleted), and those whose record does not decode.
WellFormedRead(g) ==
  {id \in Range(readLog[g]) :
     \E i \in DOMAIN stream[SubscribedStream] :
       /\ stream[SubscribedStream][i].id = id
       /\ ~ParseMessage(stream[SubscribedStream][i]).err}

UndecodableRead(g) == Range(readLog[g]) \ WellFormedRead(g)

\* C23: when the read loop takes the next entry of its batch and the entry does not
\* decode, nothing is sent, the loop goes on with the rest of the batch (or to the
\* next read) and does not exit; an entry that decodes is sent as decoded; and no
\* well-formed entry a worker has read goes missing while the context is not
\* cancelled: it was handled, or is in the channel or in the rest of the batch.
C23_UndecodableEntryDropped ==
  /\ [][\A g \in Groups :
          (rpc[g] = "deliver" /\ batch'[g] # batch[g])
          => LET parsed == ParseMessage(Head(batch[g]))
             IN IF parsed.err
                THEN /\ chan'[g] = chan[g]
                     /\ batch'[g] = Tail(batch[g])
                     /\ rpc'[g] = AfterMessage(g)
                ELSE \/ /\ chan'[g] = Append(chan[g], parsed.event)
                        /\ batch'[g] = Tail(batch[g])
                        /\ rpc'[g] = AfterMessage(g)
                     \/ cancelled /\ rpc'[g] = "exited"]_vars
  /\ [](\A g \in Groups : \A id \in WellFormedRead(g) :
          \/ id \in ProcessedIds(g)
          \/ id \in InFlightIds(g)
          \/ cancelled)

\* C23 witness: the first entry a worker read did not decode, and the well-formed
\* entry read after it was sent on the channel and handled.
C23_Witness ==
  \E g \in Groups :
    /\ Len(readLog[g]) = 2
    /\ readLog[g][1] \in UndecodableRead(g)
    /\ readLog[g][2] \in WellFormedRead(g)
    /\ ProcessedIds(g) = {readLog[g][2]}
    /\ ~cancelled

\* C27: an entry that does not decode is never handed to the handlers and never
\* acknowledged: once read by a group's worker it is in that group's pending set in
\* every later state, and the worker's reads return it only once.
C27_UndecodableStaysPending ==
  \A g \in Groups : \A id \in UndecodableRead(g) :
    /\ id \in PEL(g)
    /\ id \notin ProcessedIds(g)
    /\ Occurrences(readLog[g], id) = 1

\* C27 witness: an entry that did not decode is pending for the group after a later
\* read returned a well-formed entry and that entry was acknowledged.
C27_Witness ==
  \E g \in Groups :
    /\ Len(readLog[g]) = 2
    /\ readLog[g][1] \in UndecodableRead(g)
    /\ readLog[g][1] \in PEL(g)
    /\ readLog[g][2] \in AckedIds(g)
    /\ rpc[g] = "read"


\* ------------------------------------------------------- repeated Start()
\* Start() calls after the first one in one behaviour of the repeated-start
\* specification.
MaxRestarts == 1

\* Start() called again on the same EventService.  Start has no guard: it runs
\* InitializeStreams, registerEventHandlers and startConsumers as the first call
\* did.  After a failed first call it is the first call that gets that far.  On a
\* started service the registry is appended to while the goroutines of the first
\* call run; the three goroutines the repeated call adds are counted in wg and not
\* followed further.  initRet records whether the repeated call returned an error.
StartAgain(failAt, gcFail) ==
  /\ svc \in {"started", "failed"}
  /\ Len(initRet) < MaxRestarts
  /\ failAt \in (IF cancelled THEN {1} ELSE 0..Len(StreamOrder))
  /\ LET done == InitializedStreams(failAt)
         created(s, g) == /\ s \in done
                          /\ ~groupExists[s][g]
                          /\ ~(s = StreamPositionEvents /\ g \in gcFail)
     IN /\ lastId' = [s \in StreamNames |-> IF s \in done THEN lastId[s] + 1
                                                            ELSE lastId[s]]
        /\ groupExists' = [s \in StreamNames |-> [g \in Groups |->
                             groupExists[s][g] \/ created(s, g)]]
        /\ lastDelivered' = [s \in StreamNames |-> [g \in Groups |->
                               IF created(s, g) THEN lastId[s] + 1
                                                ELSE lastDelivered[s][g]]]
  /\ IF failAt = 0
     THEN /\ handlers' = RegisterEventHandlers(handlers)
          /\ ppc' = IF svc = "failed" THEN [g \in Groups |-> "subscribe"] ELSE ppc
          /\ wg' = wg + Cardinality(Groups)
          /\ svc' = "started"
     ELSE UNCHANGED <<handlers, ppc, wg, svc>>
  /\ initRet' = Append(initRet, failAt # 0)
  /\ UNCHANGED <<stream, pending, events, uuidCount, pubCalls, pubLog, cancelled,
                 rpc, batch, chan, readLog, procLog, stopPc>>
  /\ UNCHANGED <<initCall, ucVars, handled>>

\* InitializeStreams succeeds or fails at the first stream.
RestartFailures == {0, 1}

NextRestart ==
  \/ \E failAt \in RestartFailures : Start(failAt, {}) \/ StartAgain(failAt, {})
  \/ PipelineStep(SvcMaxEntries)

SpecRestart == Init /\ [][NextRestart]_vars

\* ------------------------------------------------------- registry claims
\* C24: the handler registry changes only in a step before which no subscription
\* goroutine has been started, for every sequence of Start() and Stop() calls.
C24_RegistryWrittenBeforeSubscriptions ==
  [][handlers' # handlers => \A g \in Groups : ppc[g] = "none"]_vars


\* ------------------------------------------------------- backpressure claims
\* The read loop of group g is in the send of a decoded event and the channel is
\* full.
SendBlocked(g) ==
  /\ rpc[g] = "deliver"
  /\ ~ParseMessage(Head(batch[g])).err
  /\ Len(chan[g]) = ChanCap

\* C25: a channel never holds more than its capacity; while the read loop is in a
\* send on a full channel and the context is not cancelled it can take no step; and
\* from such a state it issues no read and keeps its batch, until the processing
\* loop has taken an event or it returns on the cancelled context.
C25_Backpressure ==
  /\ [](\A g \in Groups :
          /\ Len(chan[g]) <= ChanCap
          /\ (SendBlocked(g) /\ ~cancelled) => ~ENABLED ReadLoop(g))
  /\ [][\A g \in Groups :
          SendBlocked(g)
          => /\ readLog'[g] = readLog[g]
             /\ lastDelivered'[SubscribedStream][g] = lastDelivered[SubscribedStream][g]
             /\ Len(chan'[g]) <= Len(chan[g])
             /\ \/ batch'[g] = batch[g] /\ rpc'[g] = rpc[g]
                \/ cancelled /\ rpc'[g] = "exited"]_vars

\* C25 witness: the channel is full, the read loop is in the send of the second
\* entry it read, and the context is not cancelled.
C25_Witness ==
  \E g \in Groups :
    /\ SendBlocked(g)
    /\ ~cancelled
    /\ Len(readLog[g]) = 2
    /\ Head(batch[g]).id = readLog[g][2]
    /\ chan[g][1].StreamID = readLog[g][1]


\* C26: no buffered event is stranded: when a processing loop has returned, every
\* event its read loop sent on the channel has been passed to the handlers, so the
\* channel is empty.
C26_NoBufferedEventStranded ==
  \A g \in Groups : ppc[g] = "done" => chan[g] = <<>>


\* ------------------------------------------------------- dispatch claims
\* The groups whose processing loop passed entry id to handler h.
HandlerRuns(h, id) ==
  {g \in Groups : \E i \in DOMAIN procLog[g] :
     procLog[g][i].sid = id /\ h \in Range(procLog[g][i].invoked)}

\* The identifiers of the PositionChanged records of the subscribed stream.
PositionChangedIds ==
  {stream[SubscribedStream][i].id :
     i \in {j \in DOMAIN stream[SubscribedStream] :
              stream[SubscribedStream][j].values.type = EventTypePositionChanged}}

InitSector ==
  /\ stream = [s \in StreamNames |-> <<>>]
  /\ lastId = [s \in StreamNames |-> 1]
  /\ groupExists = [s \in StreamNames |-> [g \in Groups |-> TRUE]]
  /\ lastDelivered = [s \in StreamNames |-> [g \in Groups |-> 1]]
  /\ pending = [s \in StreamNames |-> [g \in Groups |-> {}]]
  /\ events \in [Handles -> {FreshEvent(EventTypeUserEnteredSector),
                             FreshEvent(EventTypeUserLeftSector)}]
  /\ uuidCount = 0
  /\ pubCalls = 0
  /\ pubLog = [h |-> 0, stream |-> "", emptyID |-> FALSE, err |-> FALSE]
  /\ InitRest
  /\ handlers = RegisterEventHandlers(NoHandlers)
  /\ cancelled = FALSE
  /\ rpc = [g \in Groups |-> "none"]
  /\ batch = [g \in Groups |-> <<>>]
  /\ chan = [g \in Groups |-> <<>>]
  /\ ppc = [g \in Groups |-> IF g \in ConsumerGroups THEN "subscribe" ELSE "none"]
  /\ readLog = [g \in Groups |-> <<>>]
  /\ procLog = [g \in Groups |-> <<>>]
  /\ svc = "started"
  /\ wg = Cardinality(ConsumerGroups)
  /\ stopPc = "idle"

NextSector ==
  \/ \E g \in Groups : ReadLoop(g) \/ ConsumerLoop(g)
  \/ \E h \in Handles, xaddOk \in BOOLEAN :
       \/ PublishPositionChanged(h, xaddOk)
       \/ PublishSectorChanged(h, xaddOk)
       \/ Publish(h, StreamProximityEvents, xaddOk)
  \/ StopCall
  \/ StopReturn

SpecSector == InitSector /\ [][NextSector]_vars

\* The records of position-events.
PositionEntries == Range(stream[StreamPositionEvents])

\* C29: nothing is ever read from sector-events or proximity-events (their groups'
\* cursors and pending sets never change), every entry a worker read, every event
\* in a batch or in a channel and every event handed to the handlers is a record of
\* position-events, and so no more entries are read than position-events holds.
C29_OnlyPositionEventsDelivered ==
  /\ [][\A s \in StreamNames \ {StreamPositionEvents} :
          lastDelivered'[s] = lastDelivered[s] /\ pending'[s] = pending[s]]_vars
  /\ [](\A g \in Groups :
          /\ Len(readLog[g]) <= Len(stream[StreamPositionEvents])
          /\ \A i \in DOMAIN batch[g] : batch[g][i] \in PositionEntries
          /\ \A i \in DOMAIN chan[g] :
               \E e \in PositionEntries : chan[g][i] = ParseMessage(e).event
          /\ \A i \in DOMAIN procLog[g] :
               \E e \in PositionEntries :
                 /\ e.id = procLog[g][i].sid
                 /\ e.values.type = procLog[g][i].type)

\* C29 witness: sector-events and proximity-events hold a record each and nothing
\* was read from them, while a UserEnteredSector or UserLeftSector event appended to
\* position-events was handled by the Notification handler.
C29_Witness ==
  /\ Len(stream[StreamSectorEvents]) = 1
  /\ Len(stream[StreamProximityEvents]) = 1
  /\ Len(stream[StreamPositionEvents]) = 1
  /\ \E g \in Groups :
       /\ Len(procLog[g]) = 1
       /\ procLog[g][1].type \in {EventTypeUserEnteredSector, EventTypeUserLeftSector}
       /\ procLog[g][1].invoked = <<NotificationHandler>>
       /\ rpc[g] = "read"


\* ------------------------------------------------------- failed Start()
\* A step that is a Start() call in which InitializeStreams did not get through the
\* three streams.
StartInitFailed ==
  /\ svc = "new"
  /\ svc' # "new"
  /\ \E s \in StreamNames : lastId'[s] = lastId[s]

\* C30: a Start() whose InitializeStreams fails returns the error and leaves the
\* registry, the goroutines and the WaitGroup as they were; after it no handler is
\* registered and no subscription goroutine exists; and a Stop() called after it
\* can return at once, its wait finding the counter at zero.
C30_FailedStartStartsNothing ==
  /\ [][StartInitFailed
        => /\ svc' = "failed"
           /\ handlers' = handlers
           /\ ppc' = ppc
           /\ rpc' = rpc
           /\ wg' = wg]_vars
  /\ [](svc = "failed"
          => /\ handlers = NoHandlers
             /\ wg = 0
             /\ \A g \in Groups : ppc[g] = "none" /\ rpc[g] = "none"
             /\ stopPc = "waiting" => ENABLED StopReturn)

\* C30 witness: InitializeStreams failed at the third stream, Start() returned the
\* error, and a following Stop() has returned with nothing registered or started.
C30_Witness ==
  /\ svc = "failed"
  /\ stopPc = "returned"
  /\ lastId[StreamSectorEvents] = 1
  /\ lastId[StreamProximityEvents] = 0
  /\ handlers = NoHandlers
  /\ Subscriptions = {}

====
